---- MODULE Spec2Model ----
(***************************************************************************)
(* Inline-query resolution pipeline of Plugins/inline.py.                  *)
(*                                                                         *)
(* One handler instance (a coroutine run of inline_query_handler) per      *)
(* delivered query.  A handler is suspended only at its awaited            *)
(* collaborator calls; every action below is the code that runs from one   *)
(* await to the next.  Text typed by the requester is a sequence of        *)
(* one-character strings, so that strip/split/lower are computed.          *)
(***************************************************************************)
EXTENDS Integers, Sequences, FiniteSets, TLC

\* ------------------------------------------------------------------ bounds
\* longest record list the media index hands back
MaxSourceLen == 52

\* ------------------------------------------------------- program constants
\* results[:50]
PAGE_SIZE == 50
\* get_recent_videos(limit=10)
RECENT_LIMIT == 10
\* cache_time=5 of the browse answers
BROWSE_CACHE_TIME == 5
\* cache_time=0 of the gate and search-error answers
NO_CACHE == 0

\* Python's None, and the absence of a value
NoneVal == "None"

Handlers == {1, 2}
Users == {"u1", "u2"}

\* Config.CACHE_TIME / Config.MAX_RESULTS are configuration inputs
ConfigValues ==
    { [CACHE_TIME |-> c, MAX_RESULTS |-> m] : c \in {0, 300}, m \in {3, 50} }

\* ------------------------------------------------------------ text helpers
Whitespace == {" ", "\t", "\n"}

RECURSIVE LStrip(_)
LStrip(s) ==
    IF s # <<>> /\ Head(s) \in Whitespace THEN LStrip(Tail(s)) ELSE s

RECURSIVE RStrip(_)
RStrip(s) ==
    IF s # <<>> /\ s[Len(s)] \in Whitespace
    THEN RStrip(SubSeq(s, 1, Len(s) - 1))
    ELSE s

\* str.strip()
Strip(s) == RStrip(LStrip(s))

LowerChar(c) ==
    CASE c = "A" -> "a"
      [] c = "B" -> "b"
      [] c = "C" -> "c"
      [] c = "V" -> "v"
      [] OTHER -> c

\* the filter left as typed
Lower_AsTyped(s) == s

\* str.lower()
Lower(s) == [i \in 1..Len(s) |-> LowerChar(s[i])]

OccursAt(s, sep, i) ==
    /\ i >= 1
    /\ i + Len(sep) - 1 <= Len(s)
    /\ SubSeq(s, i, i + Len(sep) - 1) = sep

\* sep in s
Contains(s, sep) == \E i \in 1..Len(s) : OccursAt(s, sep, i)

\* index of the first occurrence of sep in s (0 when there is none)
Find(s, sep) ==
    IF Contains(s, sep)
    THEN CHOOSE i \in 1..Len(s) :
            OccursAt(s, sep, i) /\ \A j \in 1..(i - 1) : ~OccursAt(s, sep, j)
    ELSE 0

\* the split made on the last occurrence
Split1_Last(s, sep) ==
    LET i == CHOOSE i \in 1..Len(s) :
                OccursAt(s, sep, i) /\ \A j \in (i + 1)..Len(s) : ~OccursAt(s, sep, j)
    IN  << SubSeq(s, 1, i - 1), SubSeq(s, i + Len(sep), Len(s)) >>

\* s.split(sep, 1) for an s that contains sep
Split1(s, sep) ==
    LET i == Find(s, sep)
    IN  << SubSeq(s, 1, i - 1), SubSeq(s, i + Len(sep), Len(s)) >>

SEPARATOR == << " ", "|", " " >>

\* file_type_filter = None: a text that no typed text equals
NoFilter == << NoneVal >>

\* lines 108-112: (search_query, file_type_filter) passed to search_media
ParseQuery(search_query) ==
    IF Contains(search_query, SEPARATOR)
    THEN LET parts == Split1(search_query, SEPARATOR)
         IN  [term |-> Strip(parts[1]), filter |-> Lower(Strip(parts[2]))]
    ELSE [term |-> search_query, filter |-> NoFilter]

\* text the requester can have typed
RawQueries ==
    { <<>>,
      << " ", "\t" >>,
      << "c", "a", "t" >>,
      << " ", "C", "a", "t", " " >>,
      << "c", "a", "t", " ", "|", " ", "V", "i", "d" >>,
      << "a", " ", "|", " ", "b", " ", "|", " ", "c" >>,
      << "a", " ", "|", " " >>,
      << "|", " ", "v" >> }


\* ------------------------------------------------------------ media records
\* A record of the media index.  file_id, file_type and file_name are NoneVal
\* when the stored value is null; rejects is the set of result kinds whose
\* pyrogram constructor raises for this record.
Media(file_id, file_type, file_name, rejects) ==
    [file_id |-> file_id, file_type |-> file_type,
     file_name |-> file_name, rejects |-> rejects]

MediaPool ==
    { Media("A", "video", "n", {}),
      Media("A", "video", "n", {"video"}),
      Media("B", "video", "n", {"video", "document"}),
      Media("B", "document", "n", {}),
      Media("B", "document", "n", {"document"}),
      Media("A", "audio", "n", {}),
      Media("B", "photo", "n", {}),
      Media("A", "gif", "n", {}),
      Media("B", "zip", "n", {}),
      Media("A", NoneVal, "n", {}),
      Media(NoneVal, "video", "n", {}),
      Media("", "document", "n", {}),
      Media("A", "document", NoneVal, {}),
      Media("B", "audio", "n", {"audio"}) }

\* record lists of any content, up to two records long
ShortLists ==
    {<<>>} \cup { <<a>> : a \in MediaPool }
           \cup { <<a, b>> : a \in MediaPool, b \in MediaPool }

Patterns ==
    { << Media("B", "document", "n", {}) >>,
      << Media("A", "video", "n", {}), Media(NoneVal, "video", "n", {}) >>,
      << Media(NoneVal, "document", "n", {}) >>,
      << Media("A", "video", "n", {"video"}), Media("B", "photo", "n", {}) >> }

Repeat(pattern, n) == [i \in 1..n |-> pattern[((i - 1) % Len(pattern)) + 1]]

\* lengths around the limits of the handler (10, 50), up to MaxSourceLen
LongLengths == {3, 9, 10, 11, 49, 50, 51} \cup {MaxSourceLen}

\* longer lists: a pattern repeated
LongLists == { Repeat(p, n) : p \in Patterns, n \in LongLengths }

SourceLists == ShortLists \cup LongLists

\* the media index honours the limit it is given
get_recent_videos(limit, lists) == { l \in lists : Len(l) <= limit }

\* the media index answers a search with any list of records
search_media(term, filter, lists) == lists

\* ------------------------------------------------------------ result objects
Result(kind, id, file_id) ==
    [kind |-> kind, id |-> id, file_id |-> file_id,
     description |-> <<>>, content |-> <<>>]

\* InlineQueryResultArticle(id, title, description, input_message_content)
Article(id, description, content) ==
    [kind |-> "article", id |-> id, file_id |-> NoneVal,
     description |-> description, content |-> content]

\* create_inline_result returned None
Absent == Result("None", "", NoneVal)
\* create_inline_result raised
Raised == Result("Raise", "", NoneVal)

IsResult(r) == r.kind \notin {"None", "Raise"}

\* the validation of file_id left out
MissingFileId_Unchecked(media) == FALSE

\* line 166: not file_id
MissingFileId(media) == media.file_id \in {NoneVal, ""}

\* lines 159, 170-171
FileTypeOf(media) ==
    IF media.file_type \in {NoneVal, ""} THEN "document" ELSE media.file_type

\* the id taken from the file instead of the position
Construct_IdFromFile(media, kind, id) ==
    IF kind \in media.rejects
    THEN Raised
    ELSE Result(kind, kind \o "_" \o media.file_id, media.file_id)

\* a pyrogram constructor of the given kind, inside the try of line 181
Construct(media, kind, id) ==
    IF kind \in media.rejects THEN Raised ELSE Result(kind, id, media.file_id)

\* the video result without its fallback
VideoResult_NoFallback(media, index) ==
    LET video == Construct(media, "video", "video_" \o ToString(index))
    IN  IF video # Raised THEN video ELSE Absent

\* lines 182-206: cached video, falling back to a cached document
VideoResult(media, index) ==
    LET video == Construct(media, "video", "video_" \o ToString(index))
        doc   == Construct(media, "document", "doc_fallback_" \o ToString(index))
    IN  IF video # Raised THEN video
        ELSE IF doc # Raised THEN doc
        ELSE Absent

\* lines 208-241: the other file types; line 243-245 turns a raise into None
OtherResult(media, file_type, index) ==
    LET r == CASE file_type = "document" ->
                    Construct(media, "document", "doc_" \o ToString(index))
               [] file_type = "audio" ->
                    Construct(media, "audio", "audio_" \o ToString(index))
               [] file_type = "photo" ->
                    Construct(media, "photo", "photo_" \o ToString(index))
               [] file_type = "gif" ->
                    Construct(media, "animation", "gif_" \o ToString(index))
               [] OTHER ->
                    Construct(media, "document", "file_" \o ToString(index))
    IN  IF r = Raised THEN Absent ELSE r

\* create_inline_result(media, index): a result, Absent (None) or Raised
create_inline_result(media, index) ==
    IF MissingFileId(media) THEN Absent
    \* line 173: len(file_name) of a null file_name raises, outside the try
    ELSE IF media.file_name = NoneVal THEN Raised
    ELSE IF FileTypeOf(media) = "video" THEN VideoResult(media, index)
    ELSE OtherResult(media, FileTypeOf(media), index)

\* result = create_inline_result(media, idx) for each enumerate position
\* from idx on
Outcomes(media_list, idx) ==
    [k \in 1..(Len(media_list) - idx) |->
        create_inline_result(media_list[idx + k], idx + k - 1)]

\* lines 64-72: the browse loop appends every result and skips a record
\* whose rendering returns None or raises
BrowseLoop(recent_media, idx, acc) ==
    acc \o SelectSeq(Outcomes(recent_media, idx), IsResult)

\* lines 130-133: the search loop has no handler of its own; the first raise
\* leaves it with the results appended so far
SearchLoop(media_results, idx, acc) ==
    LET outs   == Outcomes(media_results, idx)
        raises == { k \in 1..Len(outs) : outs[k] = Raised }
        stop   == IF raises = {}
                  THEN Len(outs)
                  ELSE (CHOOSE k \in raises : \A l \in raises : k <= l) - 1
    IN  [raised  |-> raises # {},
         results |-> acc \o SelectSeq(SubSeq(outs, 1, stop), IsResult)]


\* ------------------------------------------------------ arguments of answer
Answer(results, cache_time, next_offset) ==
    [results |-> results, cache_time |-> cache_time,
     is_personal |-> TRUE, next_offset |-> next_offset]

Min(a, b) == IF a <= b THEN a ELSE b

\* the gate answer left to the client's cache
AuthRequiredAnswer_Cached(username) ==
    Answer(<< Article("auth_required",
                      << "Join our channel to use this bot" >>,
                      << "You need to join our channel to use this bot. Start the bot @",
                         username, " for more information." >>) >>,
           BROWSE_CACHE_TIME, "")

\* lines 27-38
AuthRequiredAnswer(username) ==
    Answer(<< Article("auth_required",
                      << "Join our channel to use this bot" >>,
                      << "You need to join our channel to use this bot. Start the bot @",
                         username, " for more information." >>) >>,
           NO_CACHE, "")

\* lines 43-54
UnauthorizedAnswer ==
    Answer(<< Article("unauthorized",
                      << "Contact admin for access" >>,
                      << "You are not authorized to use this bot." >>) >>,
           NO_CACHE, "")

\* lines 62-88
BrowseAnswer(recent_media) ==
    LET rendered == BrowseLoop(recent_media, 0, <<>>)
        results  == IF rendered = <<>>
                    THEN << Article("no_videos",
                                    << "Upload videos to channels to see them here" >>,
                                    << "No recent videos found" >>) >>
                    ELSE rendered
    IN  Answer(results, BROWSE_CACHE_TIME, "")

\* the browse failure answered like a search failure
BrowseErrorAnswer_AsSearch ==
    Answer(<< Article("error",
                      << "An error occurred while searching" >>,
                      << "Search Error. Please try again later." >>) >>,
           NO_CACHE, "")

\* lines 91-104
BrowseErrorAnswer ==
    Answer(<< Article("error_fallback",
                      << "Type to search your media collection" >>,
                      << "Search your media" >>) >>,
           BROWSE_CACHE_TIME, "")

\* the placeholder without the term
NotFound_Static(search_query) ==
    << Article("no_results", << "No results" >>, << "No videos found" >>) >>

\* lines 118-128
NotFound(search_query) ==
    << Article("no_results",
               << "No results for '" >> \o search_query \o << "'" >>,
               << "No videos found for: " >> \o search_query) >>

\* the page not truncated
Page_Whole(results) == results

\* line 136: results[:50]
Page(results) == SubSeq(results, 1, Min(Len(results), PAGE_SIZE))

\* the token set whatever the source count
NextOffset_Always(results, media_results, config) == ToString(Len(results))

\* the token counting the source records
NextOffset_SourceCount(results, media_results, config) ==
    IF Len(media_results) >= config.MAX_RESULTS
    THEN ToString(Len(media_results))
    ELSE ""

\* line 139
NextOffset(results, media_results, config) ==
    IF Len(media_results) >= config.MAX_RESULTS
    THEN ToString(Len(results))
    ELSE ""

\* lines 116-140, up to the answer call: the arguments of the call, or a raise
SearchAnswer(search_query, media_results, config) ==
    IF media_results = <<>>
    THEN [raised |-> FALSE,
          results |-> NotFound(search_query),
          args |-> Answer(Page(NotFound(search_query)), config.CACHE_TIME,
                          NextOffset(NotFound(search_query), media_results, config))]
    ELSE LET loop == SearchLoop(media_results, 0, <<>>)
         IN  [raised |-> loop.raised,
              results |-> loop.results,
              args |-> Answer(Page(loop.results), config.CACHE_TIME,
                              NextOffset(loop.results, media_results, config))]

\* lines 142-154
SearchErrorAnswer ==
    Answer(<< Article("error",
                      << "An error occurred while searching" >>,
                      << "Search Error. Please try again later." >>) >>,
           NO_CACHE, "")

\* the subscription check ignored
NotSubscribed_Ignored(ret) == FALSE
\* line 26: if not await is_subscribed(...)
NotSubscribed(ret) == ret = FALSE
\* the authorization check ignored
NotAuthorized_Ignored(ret) == FALSE
\* line 42: if not await is_authorized_user(...)
NotAuthorized(ret) == ret = FALSE
\* the empty query sent on to the search
BrowseMode_Never(search_query) == FALSE

\* every query served from the recent items
BrowseMode_Always(search_query) == TRUE

\* line 58: if not search_query
BrowseMode(search_query) == search_query = <<>>

\* -------------------------------------------------------------------- state
VARIABLES
    Config,            \* the configuration the process runs with
    pc,                \* pc[q]: the await at which handler q is suspended
    query,             \* query[q]: the InlineQuery delivered to handler q
    search_query,      \* locals of handler q
    file_type_filter,
    media_results,     \* recent_media / media_results
    results,
    calls              \* calls[q]: the collaborator calls handler q made

vars == << Config, pc, query, search_query, file_type_filter,
           media_results, results, calls >>

\* the locals kept in one place for all the handler's runs
Frame_Module(q) == 1

\* the frame that holds the locals of handler q: one per call of the
\* coroutine function
Frame(q) == q

Call(fn, args) ==
    [fn |-> fn, args |-> args, status |-> "pending", value |-> NoneVal]

\* the log with its last (pending) call completed
Complete(log, status, value) ==
    [log EXCEPT ![Len(log)] = [@ EXCEPT !.status = status, !.value = value]]

Init ==
    /\ Config \in ConfigValues
    /\ pc = [q \in Handlers |-> "idle"]
    /\ query = [q \in Handlers |-> [user_id |-> NoneVal, query |-> <<>>]]
    /\ search_query = [q \in Handlers |-> <<>>]
    /\ file_type_filter = [q \in Handlers |-> NoFilter]
    /\ media_results = [q \in Handlers |-> <<>>]
    /\ results = [q \in Handlers |-> <<>>]
    /\ calls = [q \in Handlers |-> <<>>]

\* lines 20-26: the platform delivers a query; run to the first await
Receive(q, user_id, raw) ==
    /\ pc[q] = "idle"
    /\ query' = [query EXCEPT ![q] = [user_id |-> user_id, query |-> raw]]
    /\ search_query' = [search_query EXCEPT ![Frame(q)] = Strip(raw)]
    /\ calls' = [calls EXCEPT ![q] = << Call("is_subscribed", user_id) >>]
    /\ pc' = [pc EXCEPT ![q] = "is_subscribed"]
    /\ UNCHANGED << Config, file_type_filter, media_results, results >>

\* line 26: is_subscribed returns or raises
IsSubscribed(q, raises, ret) ==
    /\ pc[q] = "is_subscribed"
    /\ IF raises
       THEN /\ calls' = [calls EXCEPT ![q] = Complete(@, "raised", NoneVal)]
            /\ pc' = [pc EXCEPT ![q] = "raised"]
       ELSE IF NotSubscribed(ret)
       THEN /\ calls' = [calls EXCEPT ![q] =
                    Append(Complete(@, "returned", ret), Call("get_me", NoneVal))]
            /\ pc' = [pc EXCEPT ![q] = "get_me"]
       ELSE /\ calls' = [calls EXCEPT ![q] =
                    Append(Complete(@, "returned", ret),
                           Call("is_authorized_user", query[q].user_id))]
            /\ pc' = [pc EXCEPT ![q] = "is_authorized_user"]
    /\ UNCHANGED << Config, query, search_query, file_type_filter,
                    media_results, results >>

\* lines 27-38: get_me returns or raises; the gate answer is sent
GetMe(q, raises, username) ==
    /\ pc[q] = "get_me"
    /\ IF raises
       THEN /\ calls' = [calls EXCEPT ![q] = Complete(@, "raised", NoneVal)]
            /\ pc' = [pc EXCEPT ![q] = "raised"]
            /\ UNCHANGED results
       ELSE /\ results' = [results EXCEPT ![Frame(q)] = AuthRequiredAnswer(username).results]
            /\ calls' = [calls EXCEPT ![q] =
                    Append(Complete(@, "returned", username),
                           Call("answer", AuthRequiredAnswer(username)))]
            /\ pc' = [pc EXCEPT ![q] = "answer_38"]
    /\ UNCHANGED << Config, query, search_query, file_type_filter, media_results >>

\* lines 42-61 and 107-115: is_authorized_user returns or raises
IsAuthorizedUser(q, raises, ret) ==
    /\ pc[q] = "is_authorized_user"
    /\ IF raises
       THEN /\ calls' = [calls EXCEPT ![q] = Complete(@, "raised", NoneVal)]
            /\ pc' = [pc EXCEPT ![q] = "raised"]
            /\ UNCHANGED << results, search_query, file_type_filter >>
       ELSE IF NotAuthorized(ret)
       THEN /\ results' = [results EXCEPT ![Frame(q)] = UnauthorizedAnswer.results]
            /\ calls' = [calls EXCEPT ![q] =
                    Append(Complete(@, "returned", ret),
                           Call("answer", UnauthorizedAnswer))]
            /\ pc' = [pc EXCEPT ![q] = "answer_54"]
            /\ UNCHANGED << search_query, file_type_filter >>
       ELSE IF BrowseMode(search_query[Frame(q)])
       THEN /\ calls' = [calls EXCEPT ![q] =
                    Append(Complete(@, "returned", ret),
                           Call("get_recent_videos", [limit |-> RECENT_LIMIT]))]
            /\ pc' = [pc EXCEPT ![q] = "get_recent_videos"]
            /\ UNCHANGED << results, search_query, file_type_filter >>
       ELSE LET parsed == ParseQuery(search_query[Frame(q)])
            IN  /\ search_query' = [search_query EXCEPT ![Frame(q)] = parsed.term]
                /\ file_type_filter' = [file_type_filter EXCEPT ![Frame(q)] = parsed.filter]
                /\ calls' = [calls EXCEPT ![q] =
                        Append(Complete(@, "returned", ret),
                               Call("search_media",
                                    [term |-> parsed.term, filter |-> parsed.filter]))]
                /\ pc' = [pc EXCEPT ![q] = "search_media"]
                /\ UNCHANGED results
    /\ UNCHANGED << Config, query, media_results >>


\* lines 59-105: get_recent_videos returns or raises; the browse answer is sent
GetRecentVideos(q, raises, recent_media) ==
    /\ pc[q] = "get_recent_videos"
    /\ IF raises
       THEN /\ results' = [results EXCEPT ![Frame(q)] = BrowseErrorAnswer.results]
            /\ calls' = [calls EXCEPT ![q] =
                    Append(Complete(@, "raised", NoneVal),
                           Call("answer", BrowseErrorAnswer))]
            /\ pc' = [pc EXCEPT ![q] = "answer_104"]
            /\ UNCHANGED media_results
       ELSE /\ media_results' = [media_results EXCEPT ![Frame(q)] = recent_media]
            /\ results' = [results EXCEPT ![Frame(q)] = BrowseAnswer(recent_media).results]
            /\ calls' = [calls EXCEPT ![q] =
                    Append(Complete(@, "returned", recent_media),
                           Call("answer", BrowseAnswer(recent_media)))]
            /\ pc' = [pc EXCEPT ![q] = "answer_88"]
    /\ UNCHANGED << Config, query, search_query, file_type_filter >>

\* lines 114-154: search_media returns or raises; the search answer is sent
SearchMedia(q, raises, found) ==
    /\ pc[q] = "search_media"
    /\ LET built == SearchAnswer(search_query[Frame(q)], found, Config)
       IN  IF raises \/ built.raised
           THEN /\ results' = [results EXCEPT ![Frame(q)] = SearchErrorAnswer.results]
                /\ calls' = [calls EXCEPT ![q] =
                        Append(IF raises THEN Complete(@, "raised", NoneVal)
                                         ELSE Complete(@, "returned", found),
                               Call("answer", SearchErrorAnswer))]
                /\ pc' = [pc EXCEPT ![q] = "answer_154"]
           ELSE /\ results' = [results EXCEPT ![Frame(q)] = built.results]
                /\ calls' = [calls EXCEPT ![q] =
                        Append(Complete(@, "returned", found),
                               Call("answer", built.args))]
                /\ pc' = [pc EXCEPT ![q] = "answer_135"]
    /\ media_results' = [media_results EXCEPT ![Frame(q)] = IF raises THEN @ ELSE found]
    /\ UNCHANGED << Config, query, search_query, file_type_filter >>

\* line 88: the browse answer returns (line 89), or raises into line 91
Answer88(q, raises) ==
    /\ pc[q] = "answer_88"
    /\ IF raises
       THEN /\ results' = [results EXCEPT ![Frame(q)] = BrowseErrorAnswer.results]
            /\ calls' = [calls EXCEPT ![q] =
                    Append(Complete(@, "raised", NoneVal),
                           Call("answer", BrowseErrorAnswer))]
            /\ pc' = [pc EXCEPT ![q] = "answer_104"]
       ELSE /\ calls' = [calls EXCEPT ![q] = Complete(@, "returned", NoneVal)]
            /\ pc' = [pc EXCEPT ![q] = "returned"]
            /\ UNCHANGED results
    /\ UNCHANGED << Config, query, search_query, file_type_filter, media_results >>

\* line 135: the search answer returns, or raises into line 142
Answer135(q, raises) ==
    /\ pc[q] = "answer_135"
    /\ IF raises
       THEN /\ results' = [results EXCEPT ![Frame(q)] = SearchErrorAnswer.results]
            /\ calls' = [calls EXCEPT ![q] =
                    Append(Complete(@, "raised", NoneVal),
                           Call("answer", SearchErrorAnswer))]
            /\ pc' = [pc EXCEPT ![q] = "answer_154"]
       ELSE /\ calls' = [calls EXCEPT ![q] = Complete(@, "returned", NoneVal)]
            /\ pc' = [pc EXCEPT ![q] = "returned"]
            /\ UNCHANGED results
    /\ UNCHANGED << Config, query, search_query, file_type_filter, media_results >>

\* lines 38, 54, 104, 154: an answer outside any try returns, or its raise
\* leaves the handler
AnswerLast(q, raises) ==
    /\ pc[q] \in {"answer_38", "answer_54", "answer_104", "answer_154"}
    /\ calls' = [calls EXCEPT ![q] =
            Complete(@, IF raises THEN "raised" ELSE "returned", NoneVal)]
    /\ pc' = [pc EXCEPT ![q] = IF raises THEN "raised" ELSE "returned"]
    /\ UNCHANGED << Config, query, search_query, file_type_filter,
                    media_results, results >>

\* handler q resumes from an await, against a media index that can return
\* `lists`
Awaits(q, lists) ==
    \/ \E raises \in BOOLEAN, ret \in BOOLEAN : IsSubscribed(q, raises, ret)
    \/ \E raises \in BOOLEAN : GetMe(q, raises, "bot")
    \/ \E raises \in BOOLEAN, ret \in BOOLEAN : IsAuthorizedUser(q, raises, ret)
    \/ \E raises \in BOOLEAN, l \in get_recent_videos(RECENT_LIMIT, lists) :
            GetRecentVideos(q, raises, l)
    \/ \E raises \in BOOLEAN,
          l \in search_media(search_query[Frame(q)], file_type_filter[Frame(q)], lists) :
            SearchMedia(q, raises, l)
    \/ \E raises \in BOOLEAN : Answer88(q, raises)
    \/ \E raises \in BOOLEAN : Answer135(q, raises)
    \/ \E raises \in BOOLEAN : AnswerLast(q, raises)

\* one step of handler q against a media index that can return `lists`
Step(q, lists) ==
    \/ \E u \in Users, raw \in RawQueries : Receive(q, u, raw)
    \/ Awaits(q, lists)

\* one query at a time
Next == Step(1, SourceLists)

Spec == Init /\ [][Next]_vars

\* ------------------------------------------- two queries handled concurrently
ConcQueries ==
    { <<>>,
      << "c", "a", "t" >>,
      << "c", " ", "|", " ", "V" >> }

ConcLists ==
    { <<>>,
      << Media("A", "video", "n", {"video"}) >>,
      << Media("B", "document", "n", {}), Media(NoneVal, "video", "n", {}),
         Media("A", "gif", "n", {}) >> }

InitConc ==
    /\ Init
    /\ Config = [CACHE_TIME |-> 300, MAX_RESULTS |-> 3]

\* the event loop resumes either handler at any of its awaits
NextConc ==
    \E q \in Handlers :
        \/ /\ pc[q] = "idle"
           /\ \E u \in Users, raw \in ConcQueries : Receive(q, u, raw)
        \/ Awaits(q, ConcLists)

SpecConc == InitConc /\ [][NextConc]_vars

\* ----------------------------------------------- any text, a small index
\* longest text enumerated in full
MaxQueryLen == 5

Alphabet == {" ", "|", "a", "B"}

\* every text over Alphabet of at most n characters
RECURSIVE Texts(_)
Texts(n) ==
    IF n = 0 THEN {<<>>}
    ELSE LET shorter == Texts(n - 1)
         IN  shorter \cup { Append(t, c) :
                             t \in { x \in shorter : Len(x) = n - 1 },
                             c \in Alphabet }

\* text the requester can have typed: every short text, and longer ones with
\* whitespace around the separator and inside the parts
TypedQueries ==
    Texts(MaxQueryLen) \cup RawQueries \cup
    { << "a", " ", " ", "|", " ", " ", "B", "a", " " >>,
      << "\t", "a", "\t", " ", "|", " ", "\n", "V", " ", "|", " ", "C" >>,
      << "a", " ", "|", " ", "|", " ", "B" >> }

ParseLists ==
    { <<>>,
      << Media("B", "document", "n", {}) >>,
      << Media("A", "video", "n", {"video"}), Media(NoneVal, "video", "n", {}) >> }

InitParse ==
    /\ Init
    /\ Config = [CACHE_TIME |-> 300, MAX_RESULTS |-> 50]

NextParse ==
    \/ /\ pc[1] = "idle"
       /\ \E raw \in TypedQueries : Receive(1, "u1", raw)
    \/ Awaits(1, ParseLists)

SpecParse == InitParse /\ [][NextParse]_vars


\* ------------------------------------------------------------- observations
\* positions in handler q's log of the calls to fn
CallsOf(q, fn) == { i \in 1..Len(calls[q]) : calls[q][i].fn = fn }

\* fn returned value v to handler q at position i of its log
ReturnedAt(q, fn, i, v) ==
    /\ i \in CallsOf(q, fn)
    /\ calls[q][i].status = "returned"
    /\ calls[q][i].value = v

HasReturned(q, fn, v) == \E i \in 1..Len(calls[q]) : ReturnedAt(q, fn, i, v)

SourceCalls(q) == CallsOf(q, "get_recent_videos") \cup CallsOf(q, "search_media")

\* the arguments of the answer calls handler q made
AnswersOf(q) == { calls[q][i].args : i \in CallsOf(q, "answer") }

\* the answer the platform accepted from handler q
Delivered(q) ==
    { calls[q][i].args : i \in { j \in CallsOf(q, "answer") :
                                    calls[q][j].status = "returned" } }

IsMediaResult(r) == r.kind # "article"

\* C1: the media index is called only after is_subscribed and
\* is_authorized_user have both returned true for the query; a query whose
\* requester fails either check never reaches the media index and no media
\* record is in any answer made for it.
C1_GateBeforeSource ==
    \A q \in Handlers :
        /\ \A s \in SourceCalls(q) :
              /\ \E i \in 1..(s - 1) : ReturnedAt(q, "is_subscribed", i, TRUE)
              /\ \E i \in 1..(s - 1) : ReturnedAt(q, "is_authorized_user", i, TRUE)
        /\ (HasReturned(q, "is_subscribed", FALSE)
              \/ HasReturned(q, "is_authorized_user", FALSE))
           => /\ SourceCalls(q) = {}
              /\ \A a \in AnswersOf(q) :
                    \A k \in 1..Len(a.results) : ~IsMediaResult(a.results[k])

\* a query that passed both gates was answered with media records
C1_Witness ==
    /\ pc[1] = "returned"
    /\ CallsOf(1, "search_media") # {}
    /\ \E a \in Delivered(1) : \E k \in 1..Len(a.results) : IsMediaResult(a.results[k])

\* C2: no exception leaves inline_query_handler: a handler that has stopped
\* has returned, after an answer the platform accepted.
C2_NoUnhandledFault ==
    \A q \in Handlers :
        /\ pc[q] # "raised"
        /\ pc[q] = "returned" => Delivered(q) # {}

\* C3: every answer made for a requester for whom is_subscribed returned
\* false has exactly one result, cache duration 0 and is personal, whatever
\* the query text; and it is the only answer made.
C3_SubscriptionDenied ==
    \A q \in Handlers :
        HasReturned(q, "is_subscribed", FALSE) =>
            /\ Cardinality(CallsOf(q, "answer")) <= 1
            /\ pc[q] = "returned" => Delivered(q) # {}
            /\ \A a \in AnswersOf(q) :
                  /\ Len(a.results) = 1
                  /\ a.cache_time = 0
                  /\ a.is_personal = TRUE

\* an unsubscribed requester typed a term with a type filter and was answered
C3_Witness ==
    /\ pc[1] = "returned"
    /\ HasReturned(1, "is_subscribed", FALSE)
    /\ Contains(query[1].query, SEPARATOR)
    /\ Delivered(1) # {}

\* C4: is_subscribed is evaluated before is_authorized_user, and when
\* is_subscribed returns false is_authorized_user is never called.
C4_SubscriptionFirst ==
    \A q \in Handlers :
        /\ \A j \in CallsOf(q, "is_authorized_user") :
              \E i \in 1..(j - 1) :
                  /\ i \in CallsOf(q, "is_subscribed")
                  /\ calls[q][i].status # "pending"
        /\ HasReturned(q, "is_subscribed", FALSE)
              => CallsOf(q, "is_authorized_user") = {}

\* both checks were evaluated, the subscription check first
C4_Witness ==
    /\ HasReturned(1, "is_subscribed", TRUE)
    /\ HasReturned(1, "is_authorized_user", FALSE)
    /\ pc[1] = "returned"


\* the source call of handler q raised
SourceRaised(q, fn) ==
    \E i \in CallsOf(q, fn) : calls[q][i].status = "raised"

\* the list the source returned to handler q
SourceReturned(q, fn) ==
    { calls[q][i].value : i \in { j \in CallsOf(q, fn) :
                                      calls[q][j].status = "returned" } }

C6_PageSize ==
    \A q \in Handlers : \A a \in AnswersOf(q) : Len(a.results) <= 50

\* a search that rendered more than 50 records was answered with 50
C6_Witness ==
    /\ pc[1] = "returned"
    /\ Len(results[1]) > 50
    /\ \E a \in Delivered(1) : Len(a.results) = 50

WhitespaceOnly(text) == \A i \in 1..Len(text) : text[i] \in Whitespace

\* C7: a requester who passed both gates with an empty or whitespace-only
\* query is served in browse mode: get_recent_videos is called with limit 10
\* and search_media is not, and an answer made from the returned records has
\* at most 10 items, or exactly 1 placeholder when no record was returned.
C7_BrowseMode ==
    \A q \in Handlers :
        (/\ HasReturned(q, "is_subscribed", TRUE)
         /\ HasReturned(q, "is_authorized_user", TRUE)
         /\ WhitespaceOnly(query[q].query))
        => /\ \E i \in CallsOf(q, "get_recent_videos") : calls[q][i].args.limit = 10
           /\ Cardinality(CallsOf(q, "get_recent_videos")) = 1
           /\ CallsOf(q, "search_media") = {}
           /\ \A a \in AnswersOf(q) : Len(a.results) <= 10
           /\ \A l \in SourceReturned(q, "get_recent_videos") :
                 l = <<>> => \A a \in AnswersOf(q) :
                                /\ Len(a.results) = 1
                                /\ a.results[1].kind = "article"

\* a whitespace-only query was answered with 10 recent items
C7_Witness ==
    /\ pc[1] = "returned"
    /\ query[1].query # <<>>
    /\ WhitespaceOnly(query[1].query)
    /\ \E a \in Delivered(1) :
          Len(a.results) = 10 /\ IsMediaResult(a.results[1])

\* C8: in every search-mode answer the continuation token is non-empty only
\* when the source returned at least MAX_RESULTS records, and is the empty
\* string otherwise.
C8_ContinuationToken ==
    \A q \in Handlers :
        \A i \in CallsOf(q, "search_media") :
            \A j \in CallsOf(q, "answer") :
                LET a == calls[q][j].args
                    n == IF calls[q][i].status = "returned"
                         THEN Len(calls[q][i].value) ELSE 0
                IN  /\ a.next_offset # "" => n >= Config.MAX_RESULTS
                    /\ n < Config.MAX_RESULTS => a.next_offset = ""

\* a search answer with a continuation token, and fewer results than records
C8_Witness ==
    /\ pc[1] = "returned"
    /\ \E a \in Delivered(1) :
          /\ a.next_offset # ""
          /\ Len(a.results) < Len(media_results[1])


\* handler q is sending the page it built from the records the source returned
SendingPage(q) == pc[q] \in {"answer_88", "answer_135"}

\* the renderings in the handler's results list (placeholders left out)
Rendered(q) == SelectSeq(results[q], IsMediaResult)

\* positions of the source records that are rendered: the record has a
\* file_id and its rendering is a result
Kept(recs) ==
    { i \in 1..Len(recs) :
        /\ recs[i].file_id \notin {NoneVal, ""}
        /\ IsResult(create_inline_result(recs[i], i - 1)) }

\* the k-th smallest element of a set of positions
KthOf(S, k) == CHOOSE i \in S : Cardinality({ j \in S : j <= i }) = k

\* C9: a record missing file_id never appears in the output, in browse mode
\* and in search mode, and the other records are unaffected: the output is
\* the renderings of the remaining records, each under its source index, in
\* source order, and its count is the source count minus the dropped records.
C9_MissingFileIdDropped ==
    \A q \in Handlers :
        SendingPage(q) =>
            LET recs == media_results[q]
                out  == Rendered(q)
                kept == Kept(recs)
            IN  /\ Len(out) = Len(recs) - Cardinality((1..Len(recs)) \ kept)
                /\ \A k \in 1..Len(out) :
                      /\ out[k].file_id # NoneVal
                      /\ out[k].file_id = recs[KthOf(kept, k)].file_id
                      /\ out[k] = create_inline_result(recs[KthOf(kept, k)],
                                                       KthOf(kept, k) - 1)
                /\ \A a \in AnswersOf(q) :
                      \A k \in 1..Len(a.results) :
                          IsMediaResult(a.results[k]) =>
                              /\ a.results[k].file_id # NoneVal
                              /\ k <= Len(out) /\ a.results[k] = out[k]

\* a page of renderings whose source list had a record without file_id
\* between two records that have one
C9_Witness ==
    /\ SendingPage(1)
    /\ Len(media_results[1]) >= 3
    /\ media_results[1][2].file_id = NoneVal
    /\ Len(Rendered(1)) >= 2

\* a video record with a file_id whose cached-video construction raises
VideoRejected(m) ==
    /\ m.file_type = "video"
    /\ m.file_id \notin {NoneVal, ""}
    /\ m.file_name # NoneVal
    /\ "video" \in m.rejects

\* the record as it is when the cached-video construction succeeds
VideoAccepted(m) == [m EXCEPT !.rejects = @ \ {"video"}]

\* C10 as claimed: a video record with a file_id whose cached-video
\* construction raises is rendered as a cached document with id
\* "doc_fallback_{index}".
C10_VideoFallbackAlways ==
    \A q \in Handlers :
        SendingPage(q) =>
            \A i \in 1..Len(media_results[q]) :
                VideoRejected(media_results[q][i]) =>
                    \E k \in 1..Len(results[q]) :
                        /\ results[q][k].kind = "document"
                        /\ results[q][k].id = "doc_fallback_" \o ToString(i - 1)

\* C10 amended: such a record is rendered as a cached document with id
\* "doc_fallback_{index}" unless the construction of that document raises
\* too, in which case the record is absent from the page; when no fallback
\* document is rejected the number of results is the same as if the video
\* constructions had succeeded.
C10_VideoFallback ==
    \A q \in Handlers :
        SendingPage(q) =>
            LET recs == media_results[q]
            IN  /\ \A i \in 1..Len(recs) :
                      VideoRejected(recs[i]) =>
                          IF "document" \in recs[i].rejects
                          THEN \A k \in 1..Len(results[q]) :
                                  results[q][k].id \notin
                                      { "doc_fallback_" \o ToString(i - 1),
                                        "video_" \o ToString(i - 1) }
                          ELSE \E k \in 1..Len(results[q]) :
                                  /\ results[q][k].kind = "document"
                                  /\ results[q][k].id = "doc_fallback_" \o ToString(i - 1)
                                  /\ results[q][k].file_id = recs[i].file_id
                /\ (\A i \in 1..Len(recs) :
                        VideoRejected(recs[i]) => "document" \notin recs[i].rejects)
                   => Len(Rendered(q)) =
                        Len(BrowseLoop([i \in 1..Len(recs) |-> VideoAccepted(recs[i])],
                                       0, <<>>))

\* a page with a fallback document in it
C10_Witness ==
    /\ SendingPage(1)
    /\ Len(media_results[1]) = 2
    /\ VideoRejected(media_results[1][2])
    /\ \E k \in 1..Len(results[1]) : results[1][k].id = "doc_fallback_1"


\* C11: in every answer no two results have the same id, for any list of
\* source records, with any mix of file types, missing file_ids and video
\* fallbacks.
C11_UniqueIds ==
    \A q \in Handlers :
        \A a \in AnswersOf(q) :
            \A i \in 1..Len(a.results) :
                \A j \in 1..Len(a.results) :
                    i # j => a.results[i].id # a.results[j].id

\* a full page of fallback documents and photos of two repeated records
C11_Witness ==
    /\ pc[1] = "returned"
    /\ \E a \in Delivered(1) :
          /\ Len(a.results) = 50
          /\ a.results[1].id = "doc_fallback_0"
          /\ a.results[3].id = "doc_fallback_2"
          /\ a.results[2].kind = "photo"

\* C12: a search with a non-empty term for which the source returns no
\* record is answered (line 135) with exactly one placeholder whose
\* description embeds the parsed term, with cache duration CACHE_TIME.
C12_NotFoundPlaceholder ==
    \A q \in Handlers :
        \A s \in CallsOf(q, "search_media") :
            (calls[q][s].status = "returned" /\ calls[q][s].value = <<>>)
            => LET a    == calls[q][s + 1].args
                   term == calls[q][s].args.term
               IN  /\ calls[q][s + 1].fn = "answer"
                   /\ term # <<>>
                   /\ Len(a.results) = 1
                   /\ a.results[1].kind = "article"
                   /\ a.results[1].id = "no_results"
                   /\ Contains(a.results[1].description, term)
                   /\ a.cache_time = Config.CACHE_TIME
                   /\ a.is_personal = TRUE

\* a filtered search without matches was answered with the placeholder
C12_Witness ==
    /\ pc[1] = "returned"
    /\ Len(calls[1]) = 4
    /\ calls[1][3].fn = "search_media"
    /\ calls[1][3].status = "returned"
    /\ calls[1][3].value = <<>>
    /\ calls[1][3].args.filter # NoFilter
    /\ calls[1][4].status = "returned"
    /\ calls[1][4].args.results[1].id = "no_results"


\* x is y without its leading and trailing whitespace
IsTrimOf(x, y) ==
    \E i \in 0..Len(y) : \E j \in i..Len(y) :
        /\ x = SubSeq(y, i + 1, j)
        /\ \A k \in 1..i : y[k] \in Whitespace
        /\ \A k \in (j + 1)..Len(y) : y[k] \in Whitespace
        /\ x # <<>> => (x[1] \notin Whitespace /\ x[Len(x)] \notin Whitespace)

\* the trimmed text of y, found among its slices
Trimmed(y) ==
    CHOOSE x \in { SubSeq(y, i, j) : i \in 1..(Len(y) + 1), j \in 0..Len(y) } :
        IsTrimOf(x, y)

UpperCase == {"A", "B", "C", "V"}

\* x is y with its upper-case letters replaced by their lower-case ones
IsLowerOf(x, y) ==
    /\ Len(x) = Len(y)
    /\ \A k \in 1..Len(y) :
          /\ y[k] \notin UpperCase => x[k] = y[k]
          /\ y[k] = "A" => x[k] = "a"
          /\ y[k] = "B" => x[k] = "b"
          /\ y[k] = "C" => x[k] = "c"
          /\ y[k] = "V" => x[k] = "v"

\* the separator " | " starts at position n of t
SeparatorAt(t, n) ==
    /\ n >= 1 /\ n + 2 <= Len(t)
    /\ t[n] = " " /\ t[n + 1] = "|" /\ t[n + 2] = " "

\* C13: the raw input is trimmed; if the trimmed input contains " | " it is
\* split on the first occurrence only, the left part trimmed is the term and
\* the whole right part trimmed and lower-cased is the type filter ("a | b |
\* c" gives term "a", filter "b | c"); otherwise the filter is None and the
\* term is the whole trimmed input; these are the arguments of search_media.
C13_QueryParsing ==
    \A q \in Handlers :
        \A s \in CallsOf(q, "search_media") :
            LET raw  == query[q].query
                t    == Trimmed(raw)
                args == calls[q][s].args
                occ  == { n \in 1..Len(t) : SeparatorAt(t, n) }
            IN  /\ IF occ = {}
                   THEN /\ args.term = t
                        /\ args.filter = NoFilter
                   ELSE LET n == CHOOSE n \in occ : \A m \in occ : n <= m
                        IN  /\ IsTrimOf(args.term, SubSeq(t, 1, n - 1))
                            /\ IsLowerOf(args.filter,
                                         Trimmed(SubSeq(t, n + 3, Len(t))))
                /\ args.term = search_query[q]
                /\ args.filter = file_type_filter[q]
                /\ raw = << "a", " ", "|", " ", "b", " ", "|", " ", "c" >>
                      => /\ args.term = << "a" >>
                         /\ args.filter = << "b", " ", "|", " ", "c" >>

\* a text with two separators and whitespace inside its parts was searched
C13_Witness ==
    /\ pc[1] = "search_media"
    /\ query[1].query =
          << "\t", "a", "\t", " ", "|", " ", "\n", "V", " ", "|", " ", "C" >>
    /\ calls[1][3].args.term = << "a" >>
    /\ calls[1][3].args.filter = << "v", " ", "|", " ", "c" >>

\* C20: whenever search_media is called, the term is non-empty and has no
\* leading or trailing whitespace and the type filter is None or a non-empty
\* lower-cased text: an input that trims to empty goes to browse mode, and a
\* trimmed input neither starts nor ends with the separator " | ".
C20_SearchArguments ==
    \A q \in Handlers :
        /\ \A s \in CallsOf(q, "search_media") :
              LET term   == calls[q][s].args.term
                  filter == calls[q][s].args.filter
              IN  /\ term # <<>>
                  /\ term[1] \notin Whitespace
                  /\ term[Len(term)] \notin Whitespace
                  /\ \/ filter = NoFilter
                     \/ /\ filter # <<>>
                        /\ \A k \in 1..Len(filter) : filter[k] \notin UpperCase
        /\ (pc[q] # "idle" /\ WhitespaceOnly(query[q].query))
              => CallsOf(q, "search_media") = {}
        /\ pc[q] # "idle"
              => LET t == Trimmed(query[q].query)
                 IN  /\ ~SeparatorAt(t, 1)
                     /\ ~SeparatorAt(t, Len(t) - 2)

\* an upper-case filter after a one-letter term was searched in lower case
C20_Witness ==
    /\ pc[1] = "search_media"
    /\ query[1].query = << "a", " ", "|", " ", "B" >>
    /\ calls[1][3].args.term = << "a" >>
    /\ calls[1][3].args.filter = << "b" >>


\* the answer call that follows the return of the source call at position s
\* of handler q's log is the one of the result page (line 88 or 135)
PageAnswerAt(q, s) ==
    /\ calls[q][s].fn \in {"get_recent_videos", "search_media"}
    /\ calls[q][s].status = "returned"
    /\ s + 1 <= Len(calls[q])

\* C14: in search mode, when the number of records the source returned
\* reaches MAX_RESULTS, the continuation token is that number as a string,
\* also when records were dropped by the renderer or the page was truncated.
C14_TokenIsSourceCount ==
    \A q \in Handlers :
        \A s \in CallsOf(q, "search_media") :
            (/\ PageAnswerAt(q, s)
             /\ Len(calls[q][s].value) >= Config.MAX_RESULTS
             /\ calls[q][s + 1].args.results # SearchErrorAnswer.results)
            => calls[q][s + 1].args.next_offset = ToString(Len(calls[q][s].value))

\* C14 amended: in search mode, when the number of records the source
\* returned reaches MAX_RESULTS, the continuation token of the result page is
\* the number of results rendered from them, before the cut to 50, as a
\* string: the source count less the dropped records.
C14_TokenIsRenderedCount ==
    \A q \in Handlers :
        \A s \in CallsOf(q, "search_media") :
            (/\ PageAnswerAt(q, s)
             /\ Len(calls[q][s].value) >= Config.MAX_RESULTS
             /\ calls[q][s].value # <<>>
             /\ calls[q][s + 1].args.results # SearchErrorAnswer.results)
            => LET recs == calls[q][s].value
               IN  /\ calls[q][s + 1].args.next_offset =
                         ToString(Cardinality(Kept(recs)))
                   /\ Cardinality(Kept(recs)) =
                         Len(recs) - Cardinality((1..Len(recs)) \ Kept(recs))
                   /\ Cardinality(Kept(recs)) > 50
                         => Len(calls[q][s + 1].args.results) = 50

\* 51 records of which every second one lacks a file_id: the token is "26"
C14_Witness ==
    /\ pc[1] = "returned"
    /\ Len(media_results[1]) = 51
    /\ Config.MAX_RESULTS = 50
    /\ \E a \in Delivered(1) :
          /\ Len(a.results) = 26
          /\ a.next_offset = "26"

\* C15: whenever no record renders, the answer is one informational
\* placeholder and never an empty page, in search mode as in browse mode.
C15_NeverEmptyPage ==
    \A q \in Handlers :
        \A a \in AnswersOf(q) :
            /\ a.results # <<>>
            /\ (\A k \in 1..Len(a.results) : ~IsMediaResult(a.results[k]))
                  => Len(a.results) = 1

\* C16: query.answer is invoked at most once per query; a failed answer is
\* followed by no second answer call.
C16_AnswerOnce ==
    \A q \in Handlers : Cardinality(CallsOf(q, "answer")) <= 1

\* C17: an exception raised while rendering one record only makes that
\* record absent: the remaining records are rendered and the page is
\* answered as a normal result page, in search mode as in browse mode.
C17_RenderFailureIsolated ==
    \A q \in Handlers :
        \A s \in SourceCalls(q) :
            (/\ PageAnswerAt(q, s)
             /\ \E k \in 1..Len(calls[q][s].value) :
                   create_inline_result(calls[q][s].value[k], k - 1) = Raised)
            => LET recs == calls[q][s].value
                   a    == calls[q][s + 1].args
                   rest == { k \in 1..Len(recs) :
                               IsResult(create_inline_result(recs[k], k - 1)) }
               IN  /\ a.results[1].id \notin {"error", "error_fallback"}
                   /\ \A k \in rest :
                         Cardinality(rest) <= 50 =>
                             \E n \in 1..Len(a.results) :
                                 a.results[n] = create_inline_result(recs[k], k - 1)

\* C18: a query that passed both gates invokes exactly one source operation,
\* once: get_recent_videos when the trimmed query is empty, search_media
\* otherwise; a source call that failed is not made again.
C18_OneSourceCall ==
    \A q \in Handlers :
        (HasReturned(q, "is_subscribed", TRUE)
            /\ HasReturned(q, "is_authorized_user", TRUE))
        => /\ Cardinality(SourceCalls(q)) = 1
           /\ WhitespaceOnly(query[q].query) =>
                 Cardinality(CallsOf(q, "get_recent_videos")) = 1
           /\ ~WhitespaceOnly(query[q].query) =>
                 Cardinality(CallsOf(q, "search_media")) = 1

\* a search whose source call failed ended with that one source call
C18_Witness ==
    /\ pc[1] = "returned"
    /\ SourceRaised(1, "search_media")
    /\ Cardinality(SourceCalls(1)) = 1
    /\ Cardinality(CallsOf(1, "answer")) = 1


\* the entry of the call to fn in a log that holds one
EntryOf(log, fn) == log[CHOOSE i \in 1..Len(log) : log[i].fn = fn]

ReturnedIn(log, fn) ==
    \E i \in 1..Len(log) : log[i].fn = fn /\ log[i].status = "returned"

RaisedIn(log, fn) ==
    \E i \in 1..Len(log) : log[i].fn = fn /\ log[i].status = "raised"

\* the first answer call of the log raised
FirstAnswerRaised(log) ==
    \E i \in 1..Len(log) :
        /\ log[i].fn = "answer" /\ log[i].status = "raised"
        /\ \A j \in 1..(i - 1) : log[j].fn # "answer"

\* the answer calls, in order, of a handler that runs alone on the text raw
\* and gets from its collaborators what the log records
AloneAnswers(raw, config, log) ==
    LET sq == Strip(raw)
    IN  IF ~ReturnedIn(log, "is_subscribed") THEN <<>>
        ELSE IF EntryOf(log, "is_subscribed").value = FALSE
        THEN IF ReturnedIn(log, "get_me")
             THEN << AuthRequiredAnswer(EntryOf(log, "get_me").value) >>
             ELSE <<>>
        ELSE IF ~ReturnedIn(log, "is_authorized_user") THEN <<>>
        ELSE IF EntryOf(log, "is_authorized_user").value = FALSE
        THEN << UnauthorizedAnswer >>
        ELSE IF sq = <<>>
        THEN IF RaisedIn(log, "get_recent_videos") THEN << BrowseErrorAnswer >>
             ELSE IF ReturnedIn(log, "get_recent_videos")
             THEN << BrowseAnswer(EntryOf(log, "get_recent_videos").value) >>
                  \o (IF FirstAnswerRaised(log)
                      THEN << BrowseErrorAnswer >> ELSE <<>>)
             ELSE <<>>
        ELSE IF RaisedIn(log, "search_media") THEN << SearchErrorAnswer >>
             ELSE IF ReturnedIn(log, "search_media")
             THEN LET built == SearchAnswer(ParseQuery(sq).term,
                                            EntryOf(log, "search_media").value,
                                            config)
                  IN  IF built.raised THEN << SearchErrorAnswer >>
                      ELSE << built.args >>
                           \o (IF FirstAnswerRaised(log)
                               THEN << SearchErrorAnswer >> ELSE <<>>)
             ELSE <<>>

IsAnswerCall(c) == c.fn = "answer"

\* the arguments of the answer calls of handler q, in order
AnswerSeq(q) ==
    LET made == SelectSeq(calls[q], IsAnswerCall)
    IN  [i \in 1..Len(made) |-> made[i].args]

\* C19: when two queries are handled concurrently, interleaved at the
\* awaits, the answers of each (results, cache duration, continuation token)
\* are those it gets when handled alone with the same collaborator returns,
\* and each handler works on its own query.
C19_Reentrant ==
    \A q \in Handlers :
        /\ AnswerSeq(q) = AloneAnswers(query[q].query, Config, calls[q])
        /\ \A i \in CallsOf(q, "is_subscribed") \cup CallsOf(q, "is_authorized_user") :
              calls[q][i].args = query[q].user_id
        /\ \A i \in CallsOf(q, "search_media") :
              calls[q][i].args.term = ParseQuery(Strip(query[q].query)).term

\* a search and a browse of the same requester, both sending their pages
C19_Witness ==
    /\ pc[1] = "answer_135"
    /\ pc[2] = "answer_88"
    /\ query[1].user_id = query[2].user_id
    /\ Len(calls[1][4].args.results) = 2
    /\ calls[1][4].args.next_offset = "2"
    /\ calls[2][4].args.results[1].id = "doc_fallback_0"

====
